---- MODULE Spec2Model ----
(***************************************************************************)
(* Desk booking: the store (users, desks, bookings with their constraints  *)
(* and row-level policies) and the helper functions of lib/desk-helpers.ts *)
(* that read and write it.  Every await of a helper is one atomic step of  *)
(* the call; calls of different sessions interleave between the steps.     *)
(***************************************************************************)
EXTENDS Integers, Naturals, Sequences, FiniteSets, TLC

\* ------------------------------------------------------------------------
\* Bounds
\* ------------------------------------------------------------------------
MaxBookingId == 2        \* booking ids handed out by the store: 1..MaxBookingId
MaxDay == 2              \* the clock runs from day 1 to day MaxDay

\* ------------------------------------------------------------------------
\* Universe
\* ------------------------------------------------------------------------
Procs == {"p1", "p2"}                 \* concurrent calls (browser sessions)
Users == {"u1", "u2"}                 \* identities known to the auth service
NoUser == "none"                      \* no session / no currentUserId given
DeskIds == {1, 2}
Dates == {1, 2}                       \* booking dates a caller may ask for
NoBooking == 0                        \* null booking / null booking id
NoDesk == 0                           \* bookingInProgress = null
GridProc == "p1"                      \* the session whose page shows the desk grid
GridVersions == {"DeskGrid.tsx", "part_010"}   \* the two DeskGrid sources
RetentionChoices == {0, 1}
AutoRetentionDays == 90               \* cleanupOldBookings(90) of the automatic purge
LimitChoices == {2}                   \* `limit` arguments of getUserBookings

\* desks.name, as its rank in alphabetical order (ids are not in name order)
NameRank(d) == IF d = 1 THEN 2 ELSE IF d = 2 THEN 1 ELSE d

\* error values returned in the `error` field
NoError == "null"
NotAuthenticated == "User not authenticated"
USER_HAS_ASSIGNED_DESK == "USER_HAS_ASSIGNED_DESK"
USER_BOOKING_LIMIT_EXCEEDED == "USER_BOOKING_LIMIT_EXCEEDED"
DESK_PERMANENTLY_ASSIGNED == "DESK_PERMANENTLY_ASSIGNED"
DuplicateBooking == "duplicate key: bookings_desk_id_booking_date_key"
DuplicateUser == "duplicate key: users_pkey"
CheckViolation == "check constraint: bookings_booking_date_check"
StoreFailure == "store_unreachable"   \* infrastructure error of a request

VARIABLES
  users,      \* ids of the rows of public.users
  desks,      \* public.desks: desk id -> [is_available, assigned_to_user_id]
  bookings,   \* rows of public.bookings
  nextId,     \* next booking id the store generates
  today,      \* CURRENT_DATE
  faultsOn,   \* whether store requests may fail for infrastructure reasons
  call,       \* per session: the helper call in progress and its locals
  grid        \* the DeskGrid component of session GridProc: its React state and
              \* the position of its handlers

vars == <<users, desks, bookings, nextId, today, faultsOn, call, grid>>

\* ------------------------------------------------------------------------
\* Store: schema
\* ------------------------------------------------------------------------
\* the desk tables the run may start from (assignments are set by an
\* administrator in the database, not by the application)
DeskRow(avail, assignee) == [is_available |-> avail, assigned_to_user_id |-> assignee]

DeskTables ==
  { [d \in DeskIds |-> IF d = 2 THEN row ELSE DeskRow(TRUE, NoUser)] :
      row \in {DeskRow(TRUE, NoUser), DeskRow(TRUE, "u2"), DeskRow(FALSE, NoUser)} }

BookingRow(id, u, d, t) ==
  [id |-> id, user_id |-> u, desk_id |-> d, booking_date |-> t, status |-> "active"]

\* no row: what a lookup that finds nothing yields
NullBooking == BookingRow(NoBooking, NoUser, 0, 0)

\* the bookings table without its unique index
NoUniqueIndex(rows, d, t) == TRUE

\* UNIQUE(desk_id, booking_date)
UniqueDeskDate(rows, d, t) ==
  \A b \in rows : ~(b.desk_id = d /\ b.booking_date = t)

\* the bookings table without its date constraint
NoDateCheck(t) == TRUE

\* CHECK (booking_date >= CURRENT_DATE)
CheckBookingDate(t) == t >= today

\* row-level security on delete switched off
NoDeletePolicy(uid, b) == TRUE

\* POLICY "Users can delete their own bookings": USING (auth.uid() = user_id)
DeletePolicy(uid, b) == uid = b.user_id

\* the answers a store request can get: served, or failed
StoreAnswers == IF faultsOn THEN {TRUE, FALSE} ELSE {TRUE}

\* ------------------------------------------------------------------------
\* Calls
\* ------------------------------------------------------------------------
IdleCall ==
  [pc |-> "idle", op |-> "none", caller |-> NoUser, deskId |-> 0, date |-> 0,
   bookingId |-> NoBooking, viewer |-> NoUser,
   assignedDesk |-> "unread", existingBooking |-> "unread",
   desksResult |-> <<>>, desksLoaded |-> FALSE,
   bookingsResult |-> {}, bookingsLoaded |-> FALSE,
   booking |-> NoBooking, error |-> NoError, success |-> FALSE,
   deletedCount |-> 0, view |-> <<>>, retentionDays |-> 0,
   \* history of the call, kept for the properties below
   requests |-> 0,      \* requests the call has sent to users, desks, bookings
   profiled |-> FALSE,  \* the call has inserted its caller's profile row
   userId |-> NoUser,   \* getUserBookings: the userId argument (NoUser: undefined)
   limit |-> 0,         \* getUserBookings: the limit argument
   list |-> <<>>,       \* getUserBookings: the bookings returned
   purge |-> "none",    \* getUserBookingsWithCleanup: "ok" / "failed" purge
   cutoff |-> 0,        \* the cutoff date of that purge
   freed |-> "no",      \* createBooking right after the session's cancelBooking
                        \* removed a booking of the same date: of the
                        \* "same_desk", or of an "other_desk"
   again |-> FALSE,     \* the session's previous call was this very call, it
                        \* returned normally and nothing has happened since
   lastView |-> <<>>,   \* the list that previous call returned
   solo |-> FALSE,      \* no other call has taken a step since this one began
   pre |-> {},          \* the booking rows at invocation, while solo
   raced |-> "no"]      \* "racing": at the insert of a free desk together with
                        \* a rival call; then "rival_won" or "rival_lost"

\* what a step taken elsewhere leaves of a session's call: a returned result
\* has been consumed, a call in flight no longer runs alone
Disturb(c) ==
  IF c.pc = "done" THEN IdleCall
  ELSE [c EXCEPT !.solo = FALSE, !.pre = {}, !.again = FALSE, !.lastView = <<>>,
                 !.freed = "no"]

\* the call sends one more request to the store
Asked(c) == [c EXCEPT !.requests = @ + 1]

\* session p moves to c
Set(p, c) == call' = [q \in Procs |-> IF q = p THEN c ELSE Disturb(call[q])]

\* session p issues a new call c: a race of two calls that a third call
\* joins is no longer a race of two
Invoke(p, c) ==
  call' = [q \in Procs |-> IF q = p THEN c
                           ELSE [Disturb(call[q]) EXCEPT !.raced = "no"]]

\* what the session's previous call, if it has just returned, freed for a
\* booking of desk d on date t by user u: the desk itself, or the day of
\* the user whose booking of another desk it removed
Freed(p, u, d, t) ==
  IF /\ call[p].pc = "done" /\ call[p].op = "cancelBooking"
     /\ call[p].pre # bookings /\ call[p].date = t
  THEN IF call[p].deskId = d THEN "same_desk"
       ELSE IF call[p].caller = u THEN "other_desk" ELSE "no"
  ELSE "no"

\* a createBooking call begun by session p: it runs alone if no other call
\* is in flight
Begin(p, c) ==
  IF \A q \in Procs \ {p} : call[q].pc \in {"idle", "done"}
  THEN [c EXCEPT !.solo = TRUE, !.pre = bookings,
                 !.freed = Freed(p, c.caller, c.deskId, c.date)]
  ELSE c

\* ensureUserProfile reporting an unauthenticated caller as
\* {success: false, error: null}
FailSilently(c, e) ==
  [c EXCEPT !.pc = "done", !.booking = NoBooking,
            !.error = IF e = NotAuthenticated THEN NoError ELSE e]

\* the call returns {booking: null, error: e}
Fail(c, e) == [c EXCEPT !.pc = "done", !.booking = NoBooking, !.error = e]

\* a session issues its next call once the previous one has returned
Ready(p) == call[p].pc \in {"idle", "done"}

\* no desk grid is mounted
NoGrid ==
  [pc |-> "closed",               \* position of the component's handlers
   version |-> "none",            \* which of GridVersions is mounted
   user |-> NoUser,               \* useAuth().user.id
   selectedDate |-> 0,            \* the selectedDate prop
   desks |-> <<>>,                \* useState: the list last fetched
   loading |-> FALSE,             \* useState
   actionLoading |-> FALSE,       \* useState
   bookingInProgress |-> NoDesk,  \* useState
   target |-> 0,                  \* the handler's deskId / bookingId argument
   creates |-> 0,                 \* createBooking calls of the current handler run
   fetches |-> 0,                 \* fetchDesks calls of the current handler run
   bookError |-> NoError,         \* the bookError of the current handler run
   exit |-> "none"]               \* the path the current handler run has taken

InFlightBook == {p \in Procs : call[p].op = "createBooking" /\ call[p].pc # "done"}

Init ==
  /\ desks \in DeskTables
  /\ users = {"u2"}          \* u2 has a profile; u1 has not signed in before
  /\ bookings = {}
  /\ nextId = 1
  /\ today = 1
  /\ faultsOn = FALSE
  /\ call = [p \in Procs |-> IdleCall]
  /\ grid = NoGrid

\* ------------------------------------------------------------------------
\* createBooking(deskId, date, notes)
\* ------------------------------------------------------------------------
\* step 2.5 left out
NoAssignedDeskCheck(u) == {}

\* step 2.5 passed over for a user who has bookings
AssignedDesksUnlessBooked(u) ==
  IF \E b \in bookings : b.user_id = u
  THEN {}
  ELSE {d \in DeskIds : desks[d].assigned_to_user_id = u}

\* desks.select("name, assignment_note").eq("assigned_to_user_id", user.id).limit(1)
AssignedDesks(u) == {d \in DeskIds : desks[d].assigned_to_user_id = u}

\* step 3 looking at the bookings of the date, whoever made them, of other
\* users only
ExistingBookingsOfOthers(u, t) ==
  {b \in bookings : b.user_id # u /\ b.booking_date = t /\ b.status = "active"}

\* bookings.select("id").eq("user_id", ..).eq("booking_date", ..).eq("status", "active")
ExistingBookings(u, t) ==
  {b \in bookings : b.user_id = u /\ b.booking_date = t /\ b.status = "active"}

\* step 3.5 with === for !==
AssignedToCaller(d, u) ==
  desks[d].assigned_to_user_id # NoUser /\ desks[d].assigned_to_user_id = u

\* step 3.5 left out
NoDeskCheck(d, u) == FALSE

\* deskInfo.assigned_to_user_id && deskInfo.assigned_to_user_id !== user.id
AssignedToSomeoneElse(d, u) ==
  desks[d].assigned_to_user_id # NoUser /\ desks[d].assigned_to_user_id # u

\* the insert checked against the date constraint only
InsertErrorDateOnly(d, t) ==
  IF ~CheckBookingDate(t) THEN CheckViolation ELSE NoError

\* the store's verdict on the insert of (user, desk, date): the check
\* constraint, then the unique index
InsertError(d, t) ==
  IF ~CheckBookingDate(t) THEN CheckViolation
  ELSE IF ~UniqueDeskDate(bookings, d, t) THEN DuplicateBooking
  ELSE NoError

\* createBooking going on to its checks although ensureUserProfile reported
\* a store error
AfterProfileIgnoringFailure(c, e) ==
  IF e = NotAuthenticated THEN Fail(c, e) ELSE [c EXCEPT !.pc = "check_assigned"]

\* step 1: if (!profileSuccess || profileError) return {booking: null, error}
AfterProfile(c, e) ==
  IF e # NoError THEN Fail(c, e) ELSE [c EXCEPT !.pc = "check_assigned"]

\* the dates callers ask for: the days of Dates and, once the clock has left
\* them behind, the current day
AskedDates == Dates \cup {t \in {today} : t > MaxDay}

\* invocation; ensureUserProfile steps 1-3: supabase.auth.getUser(), then
\* users.select("id").eq("id", user.id).single()
StartCreateBooking(p) ==
  /\ Ready(p)
  /\ nextId + Cardinality(InFlightBook) <= MaxBookingId
  /\ \E u \in Users \cup {NoUser}, d \in DeskIds, t \in AskedDates,
        ok \in StoreAnswers :
       LET c == Begin(p, [IdleCall EXCEPT !.op = "createBooking", !.caller = u,
                                           !.deskId = d, !.date = t])
       IN  Invoke(p, IF u = NoUser THEN AfterProfile(c, NotAuthenticated)
                  ELSE IF ~ok THEN AfterProfile(Asked(c), StoreFailure)
                  ELSE IF u \in users THEN AfterProfile(Asked(c), NoError)
                  ELSE [Asked(c) EXCEPT !.pc = "profile_insert"])
  /\ UNCHANGED <<users, desks, bookings, nextId, today, faultsOn>>

\* ensureUserProfile step 4: users.insert({id: user.id, ...})
ProfileInsert(p) ==
  /\ call[p].pc = "profile_insert"
  /\ \E ok \in StoreAnswers :
       IF ~ok THEN
         /\ Set(p, AfterProfile(Asked(call[p]), StoreFailure))
         /\ UNCHANGED users
       ELSE IF call[p].caller \in users THEN   \* primary key already taken
         /\ Set(p, AfterProfile(Asked(call[p]), DuplicateUser))
         /\ UNCHANGED users
       ELSE
         /\ users' = users \cup {call[p].caller}
         /\ Set(p, AfterProfile([Asked(call[p]) EXCEPT !.profiled = TRUE], NoError))
  /\ UNCHANGED <<desks, bookings, nextId, today, faultsOn>>

\* step 2.5: does the user hold a permanently assigned desk?
CheckAssigned(p) ==
  /\ call[p].pc = "check_assigned"
  /\ \E ok \in StoreAnswers :
       Set(p, IF ~ok THEN Fail(Asked(call[p]), StoreFailure)
              ELSE IF AssignedDesks(call[p].caller) # {}
                   THEN Fail([Asked(call[p]) EXCEPT !.assignedDesk = "some"],
                             USER_HAS_ASSIGNED_DESK)
                   ELSE [Asked(call[p]) EXCEPT !.pc = "check_existing",
                                               !.assignedDesk = "empty"])
  /\ UNCHANGED <<users, desks, bookings, nextId, today, faultsOn>>

\* step 3: does the user already have a booking for this date?
CheckExisting(p) ==
  /\ call[p].pc = "check_existing"
  /\ \E ok \in StoreAnswers :
       Set(p, IF ~ok THEN Fail(Asked(call[p]), StoreFailure)
              ELSE IF ExistingBookings(call[p].caller, call[p].date) # {}
                   THEN Fail([Asked(call[p]) EXCEPT !.existingBooking = "some"],
                             USER_BOOKING_LIMIT_EXCEEDED)
                   ELSE [Asked(call[p]) EXCEPT !.pc = "check_desk",
                                               !.existingBooking = "empty"])
  /\ UNCHANGED <<users, desks, bookings, nextId, today, faultsOn>>

\* the calls of other users waiting at the insert of the same desk and date,
\* the desk being free on that date
Rivals(p) ==
  {q \in Procs \ {p} : /\ call[q].pc = "insert"
                       /\ call[q].deskId = call[p].deskId
                       /\ call[q].date = call[p].date
                       /\ call[q].caller # call[p].caller
                       /\ \A b \in bookings : ~(b.desk_id = call[p].deskId
                                                /\ b.booking_date = call[p].date)}

\* step 3.5: is the desk permanently assigned to someone else?
CheckDesk(p) ==
  /\ call[p].pc = "check_desk"
  /\ \E ok \in StoreAnswers :
       IF ~ok THEN Set(p, Fail(Asked(call[p]), StoreFailure))
       ELSE IF AssignedToSomeoneElse(call[p].deskId, call[p].caller)
       THEN Set(p, Fail(Asked(call[p]), DESK_PERMANENTLY_ASSIGNED))
       ELSE call' = [q \in Procs |->
                       IF q = p
                       THEN [Asked(call[p]) EXCEPT !.pc = "insert",
                               !.raced = IF Rivals(p) # {} THEN "racing" ELSE "no"]
                       ELSE IF q \in Rivals(p)
                            THEN [Disturb(call[q]) EXCEPT !.raced = "racing"]
                            ELSE Disturb(call[q])]
  /\ UNCHANGED <<users, desks, bookings, nextId, today, faultsOn>>

\* session p returns c from the insert; a rival still racing learns the outcome
Returned(p, c, outcome) ==
  call' = [q \in Procs |->
             IF q = p THEN c
             ELSE IF call[p].raced = "racing" /\ call[q].raced = "racing"
                  THEN [Disturb(call[q]) EXCEPT !.raced = outcome]
                  ELSE Disturb(call[q])]

\* .upsert() on (user_id, booking_date) for .insert()
UpsertRow(rows, row) ==
  {b \in rows : ~(b.user_id = row.user_id /\ b.booking_date = row.booking_date)}
    \cup {row}

\* the table after .insert(row)
InsertRow(rows, row) == rows \cup {row}

\* the date constraint looked at only after the row has been written
RefusedAfterWrite(rows, row, e) ==
  IF e = CheckViolation THEN InsertRow(rows, row) ELSE rows

\* the table after an insert the store refused with error e, or failed to
\* run: the statement writes nothing
Refused(rows, row, e) == rows

\* step 4: bookings.insert({user_id, desk_id, booking_date}).select("*").single()
InsertBooking(p) ==
  /\ call[p].pc = "insert"
  /\ \E ok \in StoreAnswers :
       LET e == IF ok THEN InsertError(call[p].deskId, call[p].date) ELSE StoreFailure
       IN  IF e # NoError THEN
             /\ Returned(p, Fail(Asked(call[p]), e), "rival_lost")
             /\ bookings' = Refused(bookings,
                  BookingRow(nextId, call[p].caller, call[p].deskId, call[p].date), e)
             /\ UNCHANGED nextId
           ELSE
             /\ bookings' = InsertRow(bookings,
                  BookingRow(nextId, call[p].caller, call[p].deskId, call[p].date))
             /\ nextId' = nextId + 1
             /\ Returned(p, [Asked(call[p]) EXCEPT !.pc = "done", !.booking = nextId,
                                                   !.error = NoError], "rival_won")
  /\ UNCHANGED <<users, desks, today, faultsOn>>

\* ------------------------------------------------------------------------
\* cancelBooking(bookingId)
\* ------------------------------------------------------------------------
\* .delete().eq("id", bookingId) without the .eq filter
CancelledRowsUnfiltered(uid, id) == {b \in bookings : DeletePolicy(uid, b)}

\* the rows bookings.delete().eq("id", bookingId) removes for session uid
CancelledRows(uid, id) == {b \in bookings : b.id = id /\ DeletePolicy(uid, b)}

\* a soft delete: the rows stay, with status 'cancelled'
RowsAfterSoftDelete(rows, removed) ==
  (rows \ removed) \cup {[b EXCEPT !.status = "cancelled"] : b \in removed}

\* the table after .delete() has matched the rows `removed`
RowsAfterDelete(rows, removed) == rows \ removed

\* the row a booking id names, if there is one
RowWithId(id) ==
  IF \E b \in bookings : b.id = id THEN CHOOSE b \in bookings : b.id = id
  ELSE NullBooking

CancelBooking(p) ==
  /\ Ready(p)
  /\ \E u \in Users, id \in 1..MaxBookingId, ok \in StoreAnswers :
       LET c == [IdleCall EXCEPT !.op = "cancelBooking", !.caller = u,
                                 !.bookingId = id, !.pc = "done", !.requests = 1,
                                 \* history: the desk and date of the row named,
                                 \* the rows before the call
                                 !.deskId = RowWithId(id).desk_id,
                                 !.date = RowWithId(id).booking_date,
                                 !.pre = bookings]
       IN  IF ok THEN
             /\ bookings' = RowsAfterDelete(bookings, CancelledRows(u, id))
             /\ Invoke(p, [c EXCEPT !.success = TRUE])
           ELSE
             /\ UNCHANGED bookings
             /\ Invoke(p, [c EXCEPT !.success = FALSE, !.error = StoreFailure])
  /\ UNCHANGED <<users, desks, nextId, today, faultsOn>>

\* ------------------------------------------------------------------------
\* cleanupOldBookings(retentionDays)
\* ------------------------------------------------------------------------
\* the retention period added to the current date
CutoffDateAhead(retentionDays) == today + retentionDays

\* cutoffDate = today - retentionDays
CutoffDate(retentionDays) == today - retentionDays

\* the rows bookings.delete().lt("booking_date", cutoff) removes for session uid
PurgedRows(uid, retentionDays) ==
  {b \in bookings : b.booking_date < CutoffDate(retentionDays) /\ DeletePolicy(uid, b)}

CleanupOldBookings(p) ==
  /\ Ready(p)
  /\ \E u \in Users, r \in RetentionChoices, ok \in StoreAnswers :
       LET c == [IdleCall EXCEPT !.op = "cleanupOldBookings", !.caller = u,
                                 !.pc = "done", !.requests = 1,
                                 !.retentionDays = r, !.pre = bookings]
       IN  IF ok THEN
             /\ bookings' = RowsAfterDelete(bookings, PurgedRows(u, r))
             /\ Invoke(p, [c EXCEPT !.success = TRUE,
                                    !.deletedCount = Cardinality(PurgedRows(u, r))])
           ELSE
             /\ UNCHANGED bookings
             /\ Invoke(p, [c EXCEPT !.success = FALSE, !.error = StoreFailure])
  /\ UNCHANGED <<users, desks, nextId, today, faultsOn>>

\* ------------------------------------------------------------------------
\* getUserBookings(userId, limit), getUserBookingsWithCleanup(userId, limit,
\* autoCleanup)
\* ------------------------------------------------------------------------
RECURSIVE SortByDate(_)
\* .order("booking_date", { ascending: true })
SortByDate(S) ==
  IF S = {} THEN <<>>
  ELSE LET first == CHOOSE b \in S : \A e \in S :
                      \/ b.booking_date < e.booking_date
                      \/ b.booking_date = e.booking_date /\ b.id <= e.id
       IN  <<first>> \o SortByDate(S \ {first})

\* .limit(limit)
Limit(rows, n) == SubSeq(rows, 1, IF Len(rows) < n THEN Len(rows) ELSE n)

\* bookings.select(...).eq("status", "active").eq("user_id", uid)
\*   .order("booking_date").limit(limit)
UserBookings(uid, n) ==
  Limit(SortByDate({b \in bookings : b.status = "active" /\ b.user_id = uid}), n)

\* getUserBookings(c.userId, c.limit) called by session c.caller: what it
\* returns when the store answers (ok) or fails
GetUserBookings(c, ok) ==
  LET uid == IF c.userId # NoUser THEN c.userId ELSE c.caller
  IN  IF uid = NoUser THEN [bookings |-> <<>>, error |-> NotAuthenticated, requests |-> 0]
      ELSE IF ok THEN [bookings |-> UserBookings(uid, c.limit), error |-> NoError,
                       requests |-> 1]
      ELSE [bookings |-> <<>>, error |-> StoreFailure, requests |-> 1]

\* getUserBookingsWithCleanup returns { bookings, cleanupResult, error }
UserBookingsAnswered(c, ok) ==
  LET r == GetUserBookings(c, ok)
  IN  [c EXCEPT !.pc = "done", !.list = r.bookings, !.error = r.error,
                !.requests = @ + r.requests]

\* getUserBookingsWithCleanup giving up when the purge fails
AfterCleanupGivingUp(c, ok, n) ==
  IF ok
  THEN [c EXCEPT !.pc = "read_bookings", !.purge = "ok", !.deletedCount = n]
  ELSE [c EXCEPT !.pc = "done", !.purge = "failed", !.error = StoreFailure]

\* if (cleanup.success && cleanup.deletedCount > 0) cleanupResult = {...};
\* the read follows whatever the purge returned
AfterCleanup(c, ok, n) ==
  [c EXCEPT !.pc = "read_bookings",
            !.purge = IF ok THEN "ok" ELSE "failed",
            !.deletedCount = IF ok /\ n > 0 THEN n ELSE 0]

\* invocation; with autoCleanup the request of cleanupOldBookings(90),
\* without it the read of getUserBookings
StartGetUserBookingsWithCleanup(p) ==
  /\ Ready(p)
  /\ \E u \in Users \cup {NoUser}, uid \in Users \cup {NoUser},
        n \in LimitChoices, autoCleanup \in BOOLEAN, ok \in StoreAnswers :
       LET c == [IdleCall EXCEPT !.op = "getUserBookingsWithCleanup",
                                 !.caller = u, !.userId = uid, !.limit = n]
       IN  IF autoCleanup THEN
             /\ bookings' = IF ok
                             THEN RowsAfterDelete(bookings,
                                                  PurgedRows(u, AutoRetentionDays))
                             ELSE bookings
             /\ Invoke(p, AfterCleanup(
                            [Asked(c) EXCEPT !.retentionDays = AutoRetentionDays,
                                             !.cutoff = CutoffDate(AutoRetentionDays)],
                            ok, Cardinality(PurgedRows(u, AutoRetentionDays))))
           ELSE
             /\ UNCHANGED bookings
             /\ Invoke(p, UserBookingsAnswered(c, ok))
  /\ UNCHANGED <<users, desks, nextId, today, faultsOn>>

\* the read of getUserBookings after the purge
FinishGetUserBookingsWithCleanup(p) ==
  /\ call[p].pc = "read_bookings"
  /\ \E ok \in StoreAnswers : Set(p, UserBookingsAnswered(call[p], ok))
  /\ UNCHANGED <<users, desks, bookings, nextId, today, faultsOn>>

\* ------------------------------------------------------------------------
\* getDesksWithStatus(date, currentUserId)
\* ------------------------------------------------------------------------
RECURSIVE SortByName(_)
\* .order("name")
SortByName(S) ==
  IF S = {} THEN <<>>
  ELSE LET first == CHOOSE d \in S : \A e \in S : NameRank(d) <= NameRank(e)
       IN  <<first>> \o SortByName(S \ {first})

\* getAllDesks: desks.select(...).eq("is_available", true).order("name")
GetAllDesks ==
  LET ids == SortByName({d \in DeskIds : desks[d].is_available})
  IN  [i \in 1..Len(ids) |->
         [id |-> ids[i], assigned_to_user_id |-> desks[ids[i]].assigned_to_user_id]]

\* getBookingsForDate without .eq("booking_date", date)
AllActiveBookings(t) == {b \in bookings : b.status = "active"}

\* getBookingsForDate: bookings.select(...).eq("booking_date", date).eq("status", "active")
GetBookingsForDate(t) ==
  {b \in bookings : b.booking_date = t /\ b.status = "active"}

\* bookingsByDeskId.get(desk.id): the map keeps one row per desk_id
BookingByDeskId(rows, d) ==
  IF \E b \in rows : b.desk_id = d
  THEN CHOOSE b \in rows : b.desk_id = d
  ELSE NullBooking

\* the status with the booking looked at before the assignment
DeskStatusBookingFirst(assignee, booking, currentUserId) ==
  IF booking # NullBooking THEN
    IF currentUserId # NoUser /\ booking.user_id = currentUserId
    THEN "my_booking" ELSE "booked"
  ELSE IF assignee # NoUser THEN
    IF currentUserId # NoUser /\ assignee = currentUserId
    THEN "my_assigned" ELSE "assigned"
  ELSE "available"

\* the status with the booking's owner compared with the desk's assignee
\* instead of the viewer
DeskStatusOwnerMixedUp(assignee, booking, currentUserId) ==
  IF assignee # NoUser THEN
    IF currentUserId # NoUser /\ assignee = currentUserId
    THEN "my_assigned" ELSE "assigned"
  ELSE IF booking # NullBooking THEN
    IF currentUserId # NoUser /\ booking.user_id = assignee
    THEN "my_booking" ELSE "booked"
  ELSE "available"

\* the status of one desk: assignment first, then booking, then available
DeskStatus(assignee, booking, currentUserId) ==
  IF assignee # NoUser THEN
    IF currentUserId # NoUser /\ assignee = currentUserId
    THEN "my_assigned" ELSE "assigned"
  ELSE IF booking # NullBooking THEN
    IF currentUserId # NoUser /\ booking.user_id = currentUserId
    THEN "my_booking" ELSE "booked"
  ELSE "available"

\* desksResult.desks.map(desk => ({...desk, status, booking}))
DesksWithStatus(deskRows, bookingRows, currentUserId) ==
  [i \in 1..Len(deskRows) |->
     LET booking == BookingByDeskId(bookingRows, deskRows[i].id)
     IN  [id |-> deskRows[i].id,
          assigned_to_user_id |-> deskRows[i].assigned_to_user_id,
          status |-> DeskStatus(deskRows[i].assigned_to_user_id, booking, currentUserId),
          booking |-> booking.id]]

\* the answer of getDesksWithStatus when both reads see the current store
ResolveNow(t, currentUserId) ==
  DesksWithStatus(GetAllDesks, GetBookingsForDate(t), currentUserId)

\* what the call returns once both requests of Promise.all have settled
Resolved(c) ==
  IF c.desksLoaded /\ c.bookingsLoaded
  THEN IF c.error # NoError
       THEN [c EXCEPT !.pc = "done", !.view = <<>>]
       ELSE [c EXCEPT !.pc = "done",
                      !.view = DesksWithStatus(c.desksResult, c.bookingsResult, c.viewer)]
  ELSE c

RECURSIVE Reversed(_)
Reversed(q) == IF q = <<>> THEN <<>> ELSE Reversed(Tail(q)) \o <<Head(q)>>

\* the desks request losing .order("name") when it settles after the
\* bookings request
DesksAnsweredInSettleOrder(c, ok) ==
  IF ok THEN [c EXCEPT !.desksLoaded = TRUE,
                       !.desksResult = IF c.bookingsLoaded THEN Reversed(GetAllDesks)
                                       ELSE GetAllDesks]
  ELSE [c EXCEPT !.desksLoaded = TRUE, !.error = StoreFailure]

\* the getAllDesks() request of Promise.all is answered
DesksAnswered(c, ok) ==
  IF ok THEN [c EXCEPT !.desksLoaded = TRUE, !.desksResult = GetAllDesks]
  ELSE [c EXCEPT !.desksLoaded = TRUE, !.error = StoreFailure]

\* the getBookingsForDate(date) request of Promise.all is answered
BookingsAnswered(c, ok) ==
  IF ok THEN [c EXCEPT !.bookingsLoaded = TRUE,
                       !.bookingsResult = GetBookingsForDate(c.date)]
  ELSE [c EXCEPT !.bookingsLoaded = TRUE, !.error = StoreFailure]

\* invocation: both requests are issued; the store answers one of them first
StartGetDesksWithStatus(p) ==
  /\ Ready(p)
  /\ \E t \in Dates, v \in Users \cup {NoUser}, ok \in StoreAnswers,
        first \in {"desks", "bookings"} :
       LET again == /\ call[p].pc = "done" /\ call[p].op = "getDesksWithStatus"
                    /\ call[p].error = NoError /\ call[p].solo
                    /\ call[p].date = t /\ call[p].viewer = v
           c == [IdleCall EXCEPT !.op = "getDesksWithStatus", !.pc = "loading",
                                 !.date = t, !.viewer = v, !.requests = 2,
                                 !.solo = TRUE, !.again = again,
                                 !.lastView = IF again THEN call[p].view ELSE <<>>]
       IN  Invoke(p, IF first = "desks" THEN DesksAnswered(c, ok)
                     ELSE BookingsAnswered(c, ok))
  /\ UNCHANGED <<users, desks, bookings, nextId, today, faultsOn>>

\* the other request is answered and the statuses are derived
FinishGetDesksWithStatus(p) ==
  /\ call[p].pc = "loading"
  /\ \E ok \in StoreAnswers :
       Set(p, Resolved(IF call[p].desksLoaded THEN BookingsAnswered(call[p], ok)
                       ELSE DesksAnswered(call[p], ok)))
  /\ UNCHANGED <<users, desks, bookings, nextId, today, faultsOn>>

\* ------------------------------------------------------------------------
\* DeskGrid: DeskButton, fetchDesks, handleBookDesk, handleCancelBooking
\* ------------------------------------------------------------------------
\* the grid of `version` mounted for user u and date t: loading starts true
\* and the effect is about to call fetchDesks
MountedGrid(version, u, t) ==
  [NoGrid EXCEPT !.pc = "mount", !.version = version, !.user = u,
                 !.selectedDate = t, !.loading = TRUE]

\* currentDesks.find(d => d.id === deskId)
FindDesk(list, d) ==
  IF \E i \in 1..Len(list) : list[i].id = d
  THEN list[CHOOSE i \in 1..Len(list) : list[i].id = d]
  ELSE [id |-> NoDesk, assigned_to_user_id |-> NoUser, status |-> "absent",
        booking |-> NoBooking]

\* desks.some(d => d.assigned_to_user_id === user?.id), a prop the older
\* DeskButton does not have
UserHasAssignedDesk(g) ==
  /\ g.version = "part_010"
  /\ \E i \in 1..Len(g.desks) : g.desks[i].assigned_to_user_id = g.user

\* isClickable
IsClickable(g, desk) ==
  \/ desk.status = "available" /\ ~UserHasAssignedDesk(g)
  \/ desk.status = "my_booking"

\* disabled={!isClickable || isLoading || isBookingInProgress}
Disabled(g, desk) ==
  ~IsClickable(g, desk) \/ g.actionLoading \/ g.bookingInProgress = desk.id

\* a click on any enabled button taken for a booking
HandleClickAlwaysBooking(g, desk) ==
  IF g.actionLoading \/ g.bookingInProgress = desk.id THEN "none"
  ELSE "onBook"

\* DeskButton.handleClick: the callback a click on the button of `desk` calls
HandleClick(g, desk) ==
  IF g.actionLoading \/ g.bookingInProgress = desk.id THEN "none"
  ELSE IF UserHasAssignedDesk(g) /\ desk.status = "available" THEN "none"
  ELSE IF desk.status = "available" THEN "onBook"
  ELSE IF desk.status = "my_booking" /\ desk.booking # NoBooking THEN "onCancel"
  ELSE "none"

\* the first statements of handleBookDesk(deskId)
HandleBookDesk(g, deskId) ==
  [g EXCEPT !.pc = "book_check", !.actionLoading = TRUE,
            !.bookingInProgress = deskId, !.target = deskId,
            !.creates = 0, !.fetches = 0, !.bookError = NoError, !.exit = "none"]

\* the first statement of handleCancelBooking(bookingId)
HandleCancelBooking(g, bookingId) ==
  [g EXCEPT !.pc = "cancel_call", !.actionLoading = TRUE, !.target = bookingId,
            !.creates = 0, !.fetches = 0, !.bookError = NoError, !.exit = "none"]

\* handleBookDesk returning without its finally block once the desk is gone
FinallyNotAfterGone(g) ==
  IF g.exit = "gone"
  THEN [g EXCEPT !.pc = "idle",
                 !.target = 0, !.creates = 0, !.fetches = 0, !.bookError = NoError]
  ELSE [g EXCEPT !.pc = "idle", !.actionLoading = FALSE,
                 !.bookingInProgress = NoDesk,
                 !.target = 0, !.creates = 0, !.fetches = 0, !.bookError = NoError]

\* finally { setActionLoading(false); setBookingInProgress(null) }; in
\* handleCancelBooking bookingInProgress is null already. The locals of the
\* run are gone; the path it took is kept.
Finally(g) ==
  [g EXCEPT !.pc = "idle", !.actionLoading = FALSE, !.bookingInProgress = NoDesk,
            !.target = 0, !.creates = 0, !.fetches = 0, !.bookError = NoError]

\* errorMessage.includes("duplicate key") || includes("unique constraint")
\* || includes("bookings_desk_id_booking_date_key")
IsDuplicateKey(e) == e \in {DuplicateBooking, DuplicateUser}

\* handleBookDesk calling createBooking again after a duplicate key error
AfterCreateBookingRetrying(g, c) ==
  IF c.error # NoError THEN
    IF c.error = USER_BOOKING_LIMIT_EXCEEDED
    THEN Finally([g EXCEPT !.exit = "create_error", !.bookError = c.error])
    ELSE IF IsDuplicateKey(c.error)
    THEN [g EXCEPT !.pc = "book_create", !.exit = "duplicate", !.bookError = c.error]
    ELSE Finally([g EXCEPT !.exit = "create_error", !.bookError = c.error])
  ELSE IF c.booking # NoBooking
  THEN [g EXCEPT !.pc = "book_refetch", !.exit = "success"]
  ELSE Finally(g)

\* handleBookDesk once createBooking has returned c
AfterCreateBooking(g, c) ==
  IF c.error # NoError THEN
    IF c.error = USER_BOOKING_LIMIT_EXCEEDED
    THEN Finally([g EXCEPT !.exit = "create_error", !.bookError = c.error])
    ELSE IF IsDuplicateKey(c.error)
    THEN [g EXCEPT !.pc = "book_refetch", !.exit = "duplicate", !.bookError = c.error]
    ELSE Finally([g EXCEPT !.exit = "create_error", !.bookError = c.error])
  ELSE IF c.booking # NoBooking
  THEN [g EXCEPT !.pc = "book_refetch", !.exit = "success"]
  ELSE Finally(g)

\* handleBookDesk once its availability re-check has returned c
AfterRecheck(g, c) ==
  IF c.error # NoError THEN Finally([g EXCEPT !.exit = "check_error"])
  ELSE IF FindDesk(c.view, g.target).status # "available"
  THEN [g EXCEPT !.pc = "book_refetch", !.exit = "gone"]
  ELSE [g EXCEPT !.pc = "book_create"]

\* handleCancelBooking once cancelBooking has returned c
AfterCancelBooking(g, c) ==
  IF c.error # NoError \/ ~c.success
  THEN Finally([g EXCEPT !.exit = "cancel_error"])
  ELSE [g EXCEPT !.pc = "cancel_refetch", !.exit = "success"]

\* fetchDesks once getDesksWithStatus has returned c, or has thrown: setDesks
\* on success, finally setLoading(false); the handler that awaited it ends
AfterFetchDesks(g, c, thrown) ==
  LET g1 == [g EXCEPT !.loading = FALSE,
                      !.desks = IF ~thrown /\ c.error = NoError THEN c.view ELSE @]
  IN  IF g.pc = "fetching" THEN [g1 EXCEPT !.pc = "idle"] ELSE Finally(g1)

\* the user clicks the enabled button of a desk of the grid shown
GridClick ==
  /\ grid.pc # "closed" /\ ~grid.loading
  /\ \E i \in 1..Len(grid.desks) :
       LET desk == grid.desks[i]
           callback == HandleClick(grid, desk)
       IN  /\ ~Disabled(grid, desk)
           /\ grid' = IF callback = "onBook" THEN HandleBookDesk(grid, desk.id)
                      ELSE IF callback = "onCancel"
                      THEN HandleCancelBooking(grid, desk.booking)
                      ELSE grid
  /\ UNCHANGED <<users, desks, bookings, nextId, today, faultsOn, call>>

\* the helper call of the grid's session begun in this step has the grid's
\* date and user as arguments
WithGridArguments ==
  /\ call'[GridProc].date = grid.selectedDate
  /\ call'[GridProc].viewer = grid.user

\* fetchDesks: setLoading(true), then getDesksWithStatus(selectedDate, user?.id)
GridFetchDesks ==
  /\ grid.pc \in {"mount", "book_refetch", "cancel_refetch"}
  /\ StartGetDesksWithStatus(GridProc)
  /\ WithGridArguments
  /\ grid' = [grid EXCEPT !.loading = TRUE, !.fetches = @ + 1,
                          !.pc = IF grid.pc = "mount" THEN "fetching"
                                 ELSE IF grid.pc = "book_refetch"
                                 THEN "book_refetching" ELSE "cancel_refetching"]

\* fetchDesks: getDesksWithStatus returns
GridFetchedDesks ==
  /\ grid.pc \in {"fetching", "book_refetching", "cancel_refetching"}
  /\ FinishGetDesksWithStatus(GridProc)
  /\ grid' = AfterFetchDesks(grid, call'[GridProc], FALSE)

\* handleBookDesk: the availability re-check getDesksWithStatus(selectedDate,
\* user?.id)
GridRecheck ==
  /\ grid.pc = "book_check"
  /\ StartGetDesksWithStatus(GridProc)
  /\ WithGridArguments
  /\ grid' = [grid EXCEPT !.pc = "book_checking"]

\* handleBookDesk: the re-check returns
GridRechecked ==
  /\ grid.pc = "book_checking"
  /\ FinishGetDesksWithStatus(GridProc)
  /\ grid' = AfterRecheck(grid, call'[GridProc])

\* handleBookDesk: createBooking(deskId, selectedDate)
GridCreateBooking ==
  /\ grid.pc = "book_create"
  /\ StartCreateBooking(GridProc)
  /\ call'[GridProc].caller = grid.user
  /\ call'[GridProc].deskId = grid.target
  /\ call'[GridProc].date = grid.selectedDate
  /\ grid' = LET g == [grid EXCEPT !.pc = "book_creating", !.creates = @ + 1]
             IN  IF call'[GridProc].pc = "done"
                 THEN AfterCreateBooking(g, call'[GridProc]) ELSE g

\* handleBookDesk: createBooking takes its next step, and returns
GridCreatingBooking ==
  /\ grid.pc = "book_creating"
  /\ \/ ProfileInsert(GridProc)
     \/ CheckAssigned(GridProc)
     \/ CheckExisting(GridProc)
     \/ CheckDesk(GridProc)
     \/ InsertBooking(GridProc)
  /\ grid' = IF call'[GridProc].pc = "done"
             THEN AfterCreateBooking(grid, call'[GridProc]) ELSE grid

\* handleCancelBooking: cancelBooking(bookingId)
GridCancelBooking ==
  /\ grid.pc = "cancel_call"
  /\ CancelBooking(GridProc)
  /\ call'[GridProc].caller = grid.user
  /\ call'[GridProc].bookingId = grid.target
  /\ grid' = AfterCancelBooking(grid, call'[GridProc])

\* the helper call a handler awaits throws instead of returning: fetchDesks
\* catches what getDesksWithStatus throws, the handlers catch the rest
GridThrow ==
  /\ faultsOn
  /\ grid.pc \in {"fetching", "book_refetching", "cancel_refetching",
                  "book_checking", "book_creating", "cancel_call"}
  /\ call' = [q \in Procs |-> IF q = GridProc THEN IdleCall ELSE Disturb(call[q])]
  /\ grid' = IF grid.pc \in {"fetching", "book_refetching", "cancel_refetching"}
             THEN AfterFetchDesks(grid, IdleCall, TRUE)
             ELSE Finally([grid EXCEPT !.exit = "thrown"])
  /\ UNCHANGED <<users, desks, bookings, nextId, today, faultsOn>>

\* ------------------------------------------------------------------------
\* Environment
\* ------------------------------------------------------------------------
\* midnight: CURRENT_DATE moves on
Tick ==
  /\ today < MaxDay
  /\ today' = today + 1
  /\ call' = [q \in Procs |-> IF call[q].pc = "done" THEN IdleCall ELSE call[q]]
  /\ UNCHANGED <<users, desks, bookings, nextId, faultsOn, grid>>

\* an administrator binds a desk to a user in the database (the model lets
\* the administrator bind one desk per run)
AdminAssign ==
  /\ \A d \in DeskIds : desks[d].assigned_to_user_id = NoUser
  /\ \E d \in DeskIds, u \in users :
       desks' = [desks EXCEPT ![d].assigned_to_user_id = u]
  /\ call' = [q \in Procs |-> IF call[q].pc = "done" THEN IdleCall ELSE call[q]]
  /\ UNCHANGED <<users, bookings, nextId, today, faultsOn, grid>>

\* the retention period of the automatic purge goes by, no call in flight
Season ==
  /\ today <= MaxDay
  /\ \A p \in Procs : call[p].pc \in {"idle", "done"}
  /\ today' = today + AutoRetentionDays
  /\ call' = [q \in Procs |-> IdleCall]
  /\ UNCHANGED <<users, desks, bookings, nextId, faultsOn, grid>>

\* the reservations page: getUserBookingsWithCleanup
Lists(p) ==
  /\ \/ StartGetUserBookingsWithCleanup(p)
     \/ FinishGetUserBookingsWithCleanup(p)
  /\ UNCHANGED grid

\* the administrator binds the desk while no call is in flight
AdminAssignQuiet ==
  /\ \A p \in Procs : call[p].pc \in {"idle", "done"}
  /\ AdminAssign

\* the write path: createBooking, cancelBooking, cleanupOldBookings
Write(p) ==
  /\ \/ StartCreateBooking(p)
     \/ ProfileInsert(p)
     \/ CheckAssigned(p)
     \/ CheckExisting(p)
     \/ CheckDesk(p)
     \/ InsertBooking(p)
     \/ CancelBooking(p)
     \/ CleanupOldBookings(p)
  /\ UNCHANGED grid

\* the read path: getDesksWithStatus
Read(p) ==
  /\ \/ StartGetDesksWithStatus(p)
     \/ FinishGetDesksWithStatus(p)
  /\ UNCHANGED grid

\* sessions writing concurrently; desk assignments never change during the run
Next == (\E p \in Procs : Write(p)) \/ Tick

Spec == Init /\ [][Next]_vars

\* one session writing while another one reads
NextView == Write("p1") \/ Read("p2") \/ Tick

SpecView == Init /\ [][NextView]_vars

\* one session writing while another one reads and an administrator binds a desk
NextAdmin == Write("p1") \/ Read("p2") \/ AdminAssign

SpecAdmin == Init /\ [][NextAdmin]_vars

\* a store whose requests may fail
InitFaults ==
  /\ desks \in DeskTables
  /\ users = {"u2"}
  /\ bookings = {}
  /\ nextId = 1
  /\ today = 1
  /\ faultsOn = TRUE
  /\ call = [p \in Procs |-> IdleCall]
  /\ grid = NoGrid

\* one session writing to a store whose requests may fail
NextFaults == Write("p1") \/ Tick

SpecFaults == InitFaults /\ [][NextFaults]_vars

\* one session writing to a store that may fail, the administrator binding
\* a desk between two calls
NextOrder == Write("p1") \/ AdminAssignQuiet \/ Tick

SpecOrder == InitFaults /\ [][NextOrder]_vars

\* a writing session and a session on the reservations page, while the days
\* and the retention period go by
NextLists == Write("p1") \/ Lists("p2") \/ Tick \/ Season

SpecLists == Init /\ [][NextLists]_vars

\* the same two sessions over a store whose requests may fail
NextListFaults == Write("p1") \/ Lists("p2")

SpecListFaults == InitFaults /\ [][NextListFaults]_vars

\* another session books and cancels desks of the date the grid shows
Rival(p) ==
  /\ \/ StartCreateBooking(p)
     \/ ProfileInsert(p)
     \/ CheckAssigned(p)
     \/ CheckExisting(p)
     \/ CheckDesk(p)
     \/ InsertBooking(p)
     \/ CancelBooking(p)
  /\ call'[p].caller \in Users
  /\ call'[p].date \in {0, grid.selectedDate}
  /\ UNCHANGED grid

\* a page with the desk grid is open in one session on the current day, for
\* either version of the component and any user, over a store whose requests
\* may fail
InitGrid ==
  /\ desks \in DeskTables
  /\ users = {"u2"}
  /\ bookings = {}
  /\ nextId = 1
  /\ today = 1
  /\ faultsOn = TRUE
  /\ call = [p \in Procs |-> IdleCall]
  /\ grid \in {MountedGrid(v, u, today) : v \in GridVersions, u \in Users}

\* the grid's session and another session booking and cancelling
NextGrid ==
  \/ GridClick
  \/ GridFetchDesks
  \/ GridFetchedDesks
  \/ GridRecheck
  \/ GridRechecked
  \/ GridCreateBooking
  \/ GridCreatingBooking
  \/ GridCancelBooking
  \/ GridThrow
  \/ Rival("p2")

SpecGrid == InitGrid /\ [][NextGrid]_vars

\* ------------------------------------------------------------------------
\* Properties
\* ------------------------------------------------------------------------
Returned_createBooking(p) == call[p].pc = "done" /\ call[p].op = "createBooking"

RowsOf(rows, d, t) == {b \in rows : b.desk_id = d /\ b.booking_date = t}

HoldsAssignedDesk(u) ==
  u \in Users /\ \E d \in DeskIds : desks[d].assigned_to_user_id = u

Viewers == Users \cup {NoUser}

\* the status getDesksWithStatus reports for desk d in a returned list
StatusOf(view, d) ==
  IF \E i \in 1..Len(view) : view[i].id = d
  THEN view[CHOOSE i \in 1..Len(view) : view[i].id = d].status
  ELSE "absent"

\* C1: in every reachable state, for every desk D and date T at most one
\* booking row has desk_id = D and booking_date = T.
C1_OneBookingPerDeskAndDate ==
  \A b1, b2 \in bookings :
    (b1.desk_id = b2.desk_id /\ b1.booking_date = b2.booking_date) => b1 = b2

\* C1 witness: an insert for a desk and date that already has its row was
\* turned down by the unique index.
C1_Witness ==
  \E p \in Procs :
    /\ Returned_createBooking(p)
    /\ call[p].error = DuplicateBooking
    /\ RowsOf(bookings, call[p].deskId, call[p].date) # {}

\* C2: two users race to the insert of the same free, unassigned desk and
\* date.  The call whose insert comes first returns a created booking (while
\* the date is still bookable), the call whose insert comes second returns an
\* error and no booking, and at either return exactly one row backs the desk,
\* which getDesksWithStatus shows as booked or my_booking to every viewer.
C2_RaceHasOneWinner ==
  \A p \in Procs :
    (Returned_createBooking(p) /\ call[p].raced # "no") =>
      /\ (call[p].raced = "racing" /\ CheckBookingDate(call[p].date)) =>
           (call[p].booking # NoBooking /\ call[p].error = NoError)
      /\ call[p].raced = "rival_won" =>
           (call[p].booking = NoBooking /\ call[p].error # NoError)
      /\ (call[p].booking # NoBooking \/ call[p].raced = "rival_won") =>
           /\ Cardinality(RowsOf(bookings, call[p].deskId, call[p].date)) = 1
           /\ \A v \in Viewers :
                desks[call[p].deskId].is_available =>
                  StatusOf(ResolveNow(call[p].date, v), call[p].deskId)
                    \in {"booked", "my_booking"}

\* C2 witness: the loser of a race has returned with the unique violation.
C2_Witness ==
  \E p \in Procs :
    /\ Returned_createBooking(p)
    /\ call[p].raced = "rival_won"
    /\ call[p].error = DuplicateBooking
    /\ call[p].booking = NoBooking

\* C3: after any interleaving of calls, no user holds two active bookings
\* with the same booking_date.
C3_OneBookingPerUserAndDate ==
  \A b1, b2 \in bookings :
    (b1.user_id = b2.user_id /\ b1.booking_date = b2.booking_date
       /\ b1.status = "active" /\ b2.status = "active") => b1 = b2

\* C4: a createBooking call that ran with no other call in progress, by a
\* user U without an assigned desk who had an active booking on T when the
\* call began, returns no booking and USER_BOOKING_LIMIT_EXCEEDED, leaves the
\* booking rows as they were, and a desk that was free is still shown as
\* available to every viewer.
C4_SecondBookingRejected ==
  \A p \in Procs :
    ( /\ Returned_createBooking(p)
      /\ call[p].solo
      /\ call[p].caller \in Users
      /\ ~HoldsAssignedDesk(call[p].caller)
      /\ \E b \in call[p].pre : /\ b.user_id = call[p].caller
                                /\ b.booking_date = call[p].date
                                /\ b.status = "active" ) =>
      /\ call[p].booking = NoBooking
      /\ call[p].error = USER_BOOKING_LIMIT_EXCEEDED
      /\ bookings = call[p].pre
      /\ \A v \in Viewers :
           ( /\ RowsOf(call[p].pre, call[p].deskId, call[p].date) = {}
             /\ desks[call[p].deskId].is_available
             /\ desks[call[p].deskId].assigned_to_user_id = NoUser ) =>
             StatusOf(ResolveNow(call[p].date, v), call[p].deskId) = "available"

\* C4 witness: such a call has returned, and it was for a free desk.
C4_Witness ==
  \E p \in Procs :
    /\ Returned_createBooking(p)
    /\ call[p].solo
    /\ call[p].error = USER_BOOKING_LIMIT_EXCEEDED
    /\ \E b \in call[p].pre : b.user_id = call[p].caller /\ b.booking_date = call[p].date
    /\ RowsOf(call[p].pre, call[p].deskId, call[p].date) = {}
    /\ desks[call[p].deskId].is_available
    /\ desks[call[p].deskId].assigned_to_user_id = NoUser

\* C5: every createBooking call by a user to whom a desk is permanently
\* assigned returns no booking and USER_HAS_ASSIGNED_DESK, whatever the desk
\* and the date, and no booking row of such a user exists.
C5_AssignedUserCannotBook ==
  /\ \A p \in Procs :
       (Returned_createBooking(p) /\ HoldsAssignedDesk(call[p].caller)) =>
         (call[p].booking = NoBooking /\ call[p].error = USER_HAS_ASSIGNED_DESK)
  /\ \A b \in bookings : ~HoldsAssignedDesk(b.user_id)

\* C5 witness: the holder of an assigned desk was turned down for a desk
\* that is free on that date.
C5_Witness ==
  \E p \in Procs :
    /\ Returned_createBooking(p)
    /\ HoldsAssignedDesk(call[p].caller)
    /\ desks[call[p].deskId].assigned_to_user_id = NoUser
    /\ RowsOf(bookings, call[p].deskId, call[p].date) = {}
    /\ call[p].error = USER_HAS_ASSIGNED_DESK

\* C6: a createBooking call by U1 for a desk permanently assigned to another
\* user, U1 having no assigned desk and no active booking on the date when
\* the call checks for one, returns no booking and DESK_PERMANENTLY_ASSIGNED,
\* and no row of U1 for that desk and date exists; when the call ran alone
\* and U1 had no booking on the date when it began, the booking rows are
\* those of before the call.
C6_AssignedDeskCannotBeBooked ==
  \A p \in Procs :
    ( /\ Returned_createBooking(p)
      /\ call[p].caller \in Users
      /\ desks[call[p].deskId].assigned_to_user_id \notin {NoUser, call[p].caller}
      /\ ~HoldsAssignedDesk(call[p].caller) ) =>
      /\ call[p].existingBooking = "empty" =>
           /\ call[p].booking = NoBooking
           /\ call[p].error = DESK_PERMANENTLY_ASSIGNED
           /\ \A b \in RowsOf(bookings, call[p].deskId, call[p].date) :
                b.user_id # call[p].caller
      /\ ( /\ call[p].solo
           /\ \A b \in call[p].pre :
                ~(b.user_id = call[p].caller /\ b.booking_date = call[p].date) ) =>
           /\ call[p].booking = NoBooking
           /\ call[p].error = DESK_PERMANENTLY_ASSIGNED
           /\ bookings = call[p].pre

\* C6 witness: a call that ran alone was turned down for an assigned desk.
C6_Witness ==
  \E p \in Procs :
    /\ Returned_createBooking(p)
    /\ call[p].solo
    /\ call[p].existingBooking = "empty"
    /\ desks[call[p].deskId].assigned_to_user_id \notin {NoUser, call[p].caller}
    /\ call[p].error = DESK_PERMANENTLY_ASSIGNED

\* C7: with desk assignments that do not change, no booking row is for a
\* desk permanently assigned to a user other than the row's user_id.
C7_NoBookingOnSomeoneElsesDesk ==
  \A b \in bookings :
    desks[b.desk_id].assigned_to_user_id \in {NoUser, b.user_id}

\* C7 witness: bookings exist while a call for a desk assigned to another
\* user has just been turned down.
C7_Witness ==
  /\ bookings # {}
  /\ \E p \in Procs :
       /\ Returned_createBooking(p)
       /\ desks[call[p].deskId].assigned_to_user_id \notin {NoUser, call[p].caller}
       /\ call[p].error = DESK_PERMANENTLY_ASSIGNED

Returned_getDesksWithStatus(p) ==
  call[p].pc = "done" /\ call[p].op = "getDesksWithStatus" /\ call[p].error = NoError

\* C8: whatever the store holds, a booking row on an assigned desk included,
\* getDesksWithStatus reports a desk whose assigned_to_user_id is set only as
\* assigned or my_assigned, for every date and viewer: in every list a call
\* returns, and in the list a call reading the current store would return.
C8_AssignedDeskNeverShownBooked ==
  /\ \A p \in Procs :
       Returned_getDesksWithStatus(p) =>
         \A i \in 1..Len(call[p].view) :
           call[p].desksResult[i].assigned_to_user_id # NoUser =>
             /\ call[p].view[i].id = call[p].desksResult[i].id
             /\ call[p].view[i].status \in {"assigned", "my_assigned"}
  /\ \A t \in Dates, v \in Viewers, d \in DeskIds :
       (desks[d].is_available /\ desks[d].assigned_to_user_id # NoUser) =>
         StatusOf(ResolveNow(t, v), d) \in {"assigned", "my_assigned"}

\* C8 witness: a returned list shows a desk that is assigned and for which
\* the call also loaded a booking row of that date.
C8_Witness ==
  \E p \in Procs :
    /\ Returned_getDesksWithStatus(p)
    /\ \E i \in 1..Len(call[p].view) :
         /\ call[p].desksResult[i].assigned_to_user_id # NoUser
         /\ \E b \in call[p].bookingsResult : b.desk_id = call[p].view[i].id
         /\ call[p].view[i].status = "assigned"

\* the status the specification prescribes for desk d, from the desk's
\* assignee, the booking rows of the date and the viewer
ReferenceStatus(assignee, rows, d, viewer) ==
  IF assignee # NoUser
  THEN IF viewer # NoUser /\ assignee = viewer THEN "my_assigned" ELSE "assigned"
  ELSE IF viewer # NoUser /\ \E b \in rows : b.desk_id = d /\ b.user_id = viewer
       THEN "my_booking"
       ELSE IF \E b \in rows : b.desk_id = d THEN "booked" ELSE "available"

\* C9: every list getDesksWithStatus returns has one entry per desk it
\* loaded, in the same order, whose status is the reference status of that
\* desk for the loaded booking rows and the viewer; so has the list a call
\* reading the current store would return.
C9_StatusIsReferenceStatus ==
  /\ \A p \in Procs :
       Returned_getDesksWithStatus(p) =>
         /\ Len(call[p].view) = Len(call[p].desksResult)
         /\ \A i \in 1..Len(call[p].view) :
              /\ call[p].view[i].id = call[p].desksResult[i].id
              /\ call[p].view[i].status =
                   ReferenceStatus(call[p].desksResult[i].assigned_to_user_id,
                                   call[p].bookingsResult,
                                   call[p].desksResult[i].id, call[p].viewer)
  /\ \A t \in Dates, v \in Viewers, d \in DeskIds :
       StatusOf(ResolveNow(t, v), d) =
         IF desks[d].is_available
         THEN ReferenceStatus(desks[d].assigned_to_user_id,
                              {b \in bookings : b.booking_date = t /\ b.status = "active"},
                              d, v)
         ELSE "absent"

\* C9 witness: a returned list holds the viewer's own booking next to a desk
\* that is assigned or booked by someone else.
C9_Witness ==
  \E p \in Procs :
    /\ Returned_getDesksWithStatus(p)
    /\ \E i, j \in 1..Len(call[p].view) :
         /\ call[p].view[i].status = "my_booking"
         /\ call[p].view[j].status \in {"assigned", "booked"}

\* C10: a createBooking call that returns a booking has inserted its row,
\* and as long as the row of user U1 for an unassigned enabled desk D and
\* date T exists, getDesksWithStatus(T, U1) reports D as my_booking and
\* getDesksWithStatus(T, V) reports it as booked for every other viewer V
\* and for no viewer: in every list returned by a call that loaded the row,
\* and in the list a call reading the current store would return.
C10_BookedDeskShownToOwnerAndOthers ==
  /\ \A p \in Procs :
       (Returned_createBooking(p) /\ call[p].booking # NoBooking) =>
         BookingRow(call[p].booking, call[p].caller, call[p].deskId, call[p].date)
           \in bookings
  /\ \A b \in bookings, v \in Viewers :
       (desks[b.desk_id].is_available /\ desks[b.desk_id].assigned_to_user_id = NoUser) =>
         StatusOf(ResolveNow(b.booking_date, v), b.desk_id) =
           IF v = b.user_id THEN "my_booking" ELSE "booked"
  /\ \A p \in Procs :
       Returned_getDesksWithStatus(p) =>
         \A b \in call[p].bookingsResult, i \in 1..Len(call[p].view) :
           ( /\ call[p].view[i].id = b.desk_id
             /\ call[p].desksResult[i].assigned_to_user_id = NoUser ) =>
             call[p].view[i].status =
               IF call[p].viewer = b.user_id THEN "my_booking" ELSE "booked"

\* C10 witness: a list returned to another viewer shows as booked a desk
\* whose row, created by createBooking, is still in the store.
C10_Witness ==
  \E p \in Procs :
    /\ Returned_getDesksWithStatus(p)
    /\ call[p].viewer \in Users
    /\ \E b \in bookings, i \in 1..Len(call[p].view) :
         /\ b \in call[p].bookingsResult
         /\ b.user_id # call[p].viewer
         /\ call[p].view[i].id = b.desk_id
         /\ call[p].view[i].status = "booked"

Returned_cancelBooking(p) == call[p].pc = "done" /\ call[p].op = "cancelBooking"

\* C11: when cancelBooking(bookingId), whoever calls it, has returned
\* success = true for the id of an existing booking on an enabled, unassigned
\* desk D and date T, and nothing has happened since, getDesksWithStatus(T, V)
\* reports D as available to every viewer V.
C11_CancelledDeskShownAvailable ==
  \A p \in Procs :
    ( /\ Returned_cancelBooking(p)
      /\ call[p].success
      /\ call[p].deskId \in DeskIds          \* the id named a row of the store
      /\ desks[call[p].deskId].is_available
      /\ desks[call[p].deskId].assigned_to_user_id = NoUser ) =>
      \A v \in Viewers :
        StatusOf(ResolveNow(call[p].date, v), call[p].deskId) = "available"

\* the call that returns in this step deletes booking rows and was issued by u
DeletingCallBy(u) ==
  \E p \in Procs :
    /\ call'[p].pc = "done"
    /\ call'[p].op \in {"cancelBooking", "cleanupOldBookings"}
    /\ call'[p].caller = u

\* C12: a cancelBooking call issued by a user who is not the user_id of the
\* booking it names leaves that row in the store, no step changes the fields
\* of a booking row, and a step that removes a booking row of user U is the
\* return of a cancelBooking or cleanupOldBookings call issued by U.
C12_OnlyOwnerRemovesBooking ==
  [][ /\ \A p \in Procs, b \in bookings :
           ( /\ call'[p].pc = "done" /\ call'[p].op = "cancelBooking"
             /\ call'[p].pre = bookings
             /\ call'[p].bookingId = b.id
             /\ call'[p].caller # b.user_id ) => b \in bookings'
      /\ \A b \in bookings :
           /\ b \in bookings' \/ DeletingCallBy(b.user_id)
           /\ \A b2 \in bookings' : b2.id = b.id => b2 = b ]_vars

\* C12 witness: a user has called cancelBooking with the id of another
\* user's booking; the call has returned and the row is still there.
C12_Witness ==
  \E p \in Procs, b \in bookings :
    /\ Returned_cancelBooking(p)
    /\ call[p].bookingId = b.id
    /\ call[p].caller # b.user_id
    /\ b \in call[p].pre

Eligible(c) ==
  /\ c.caller \in Users
  /\ ~HoldsAssignedDesk(c.caller)
  /\ \A b \in c.pre : ~(b.user_id = c.caller /\ b.booking_date = c.date)

\* the desk asked for was free on the date when the call began, and is unassigned
FreeDesk(c) ==
  /\ RowsOf(c.pre, c.deskId, c.date) = {}
  /\ desks[c.deskId].assigned_to_user_id = NoUser

\* C14: a createBooking call by an eligible user for a free, unassigned desk
\* that ran alone and whose date is the current day when it returns has
\* created its booking; a call whose date is before the current day returns
\* an error and no booking, and no step adds a booking row dated before the
\* current day.
C14_TodayAcceptedPastRejected ==
  /\ [](\A p \in Procs :
          Returned_createBooking(p) =>
            /\ (call[p].solo /\ Eligible(call[p]) /\ FreeDesk(call[p])
                   /\ call[p].date = today) =>
                 /\ call[p].booking # NoBooking
                 /\ call[p].error = NoError
                 /\ bookings = call[p].pre \cup
                      {BookingRow(call[p].booking, call[p].caller,
                                  call[p].deskId, call[p].date)}
            /\ call[p].date < today =>
                 /\ call[p].booking = NoBooking
                 /\ call[p].error # NoError
                 /\ call[p].solo => bookings = call[p].pre)
  /\ [][\A b \in bookings' \ bookings : b.booking_date >= today]_vars

\* C14 witness: an eligible user's call for a free desk and a date before
\* the current day has been turned down by the store's date constraint.
C14_Witness ==
  \E p \in Procs :
    /\ Returned_createBooking(p)
    /\ call[p].solo /\ Eligible(call[p]) /\ FreeDesk(call[p])
    /\ call[p].date < today
    /\ call[p].error = CheckViolation
    /\ bookings = call[p].pre

\* C15: a createBooking call invoked with a date before the current day
\* returns its error at once, without having sent any request to users,
\* desks or bookings.
C15_PastDateRejectedBeforeStore ==
  [][ \A p \in Procs :
        ( /\ call[p].pc \in {"idle", "done"}
          /\ call'[p].op = "createBooking"        \* invoked in this step
          /\ call'[p].date < today ) =>
          /\ call'[p].pc = "done"
          /\ call'[p].error # NoError
          /\ call'[p].requests = 0 ]_vars

Returned_cleanupOldBookings(p) ==
  call[p].pc = "done" /\ call[p].op = "cleanupOldBookings"

\* C16: when cleanupOldBookings(retentionDays), whoever calls it, has
\* returned success, the rows it removed are exactly the rows, of all users,
\* dated strictly before today - retentionDays (a row dated exactly
\* today - retentionDays is kept), and deletedCount is their number.
C16_CleanupDeletesAllOldRows ==
  \A p \in Procs :
    (Returned_cleanupOldBookings(p) /\ call[p].success) =>
      /\ bookings =
           {b \in call[p].pre : ~(b.booking_date < today - call[p].retentionDays)}
      /\ call[p].deletedCount = Cardinality(call[p].pre \ bookings)

\* C17: no booking row is for a desk with is_available = false (the desks'
\* is_available never changes during a run, so such a row was created by a
\* createBooking call for a disabled desk), and getDesksWithStatus lists no
\* such desk, for any date and viewer.
C17_DisabledDeskNeverBookedNorShown ==
  /\ \A b \in bookings : desks[b.desk_id].is_available
  /\ \A d \in DeskIds, t \in Dates, v \in Viewers :
       ~desks[d].is_available => StatusOf(ResolveNow(t, v), d) = "absent"

\* the row a successful createBooking call returns
BookingOf(c) == BookingRow(c.booking, c.caller, c.deskId, c.date)

\* C18 as claimed: a createBooking call that returns a booking has left the
\* users table as it was (it has inserted no profile row) and, when it ran
\* alone, has added its row to bookings and changed no other booking row.
C18_NoSideEffectBeyondInsert ==
  \A p \in Procs :
    (Returned_createBooking(p) /\ call[p].booking # NoBooking) =>
      /\ ~call[p].profiled
      /\ call[p].solo =>
           (BookingOf(call[p]) \notin call[p].pre
              /\ bookings = call[p].pre \cup {BookingOf(call[p])})

\* session p's createBooking call takes a step
StepOfCreateBooking(p) ==
  /\ call'[p].op = "createBooking"
  /\ call'[p].pc # call[p].pc \/ call'[p].requests # call[p].requests

\* C18: every step of a createBooking call leaves the desks table and all
\* existing booking rows unchanged; the step that returns a booking adds
\* exactly one row to bookings, the row returned, and no other step adds
\* one; the only row a call adds to users is its caller's own profile row,
\* when it was missing.
C18_OnlyBookingAndOwnProfileAdded ==
  [][ \A p \in Procs :
        StepOfCreateBooking(p) =>
          /\ desks' = desks
          /\ bookings \subseteq bookings'
          /\ IF call'[p].pc = "done" /\ call'[p].booking # NoBooking
             THEN /\ BookingOf(call'[p]) \notin bookings
                  /\ bookings' = bookings \cup {BookingOf(call'[p])}
             ELSE bookings' = bookings
          /\ users \subseteq users'
          /\ users' \ users \subseteq {call'[p].caller}
          /\ call'[p].profiled =
               ((~Ready(p) /\ call[p].profiled) \/ users' # users) ]_vars

\* C18 witness: a call of a user without a profile has returned its booking,
\* having inserted the user's profile row on the way.
C18_Witness ==
  \E p \in Procs :
    /\ Returned_createBooking(p)
    /\ call[p].booking # NoBooking
    /\ call[p].profiled
    /\ call[p].caller \in users
    /\ BookingOf(call[p]) \in bookings

\* C19: every createBooking call returns a booking exactly when it returns
\* no error, on every path: unauthenticated, profile lookup or creation
\* failed, each business-rule rejection, a failed read, a refused or failed
\* insert, success.
C19_BookingOrError ==
  \A p \in Procs :
    Returned_createBooking(p) =>
      (call[p].booking # NoBooking <=> call[p].error = NoError)

\* C19 witness: a call has returned the error of a failed store read (its
\* check for an existing booking), and no booking.
C19_Witness ==
  \E p \in Procs :
    /\ Returned_createBooking(p)
    /\ call[p].assignedDesk = "empty"
    /\ call[p].existingBooking = "unread"
    /\ call[p].error = StoreFailure
    /\ call[p].booking = NoBooking

\* C20: a cancelBooking call whose id matched no booking row has returned
\* success = true and a null error and has left the booking rows as they
\* were; and after any cancelBooking(id) call that returned success, the
\* same call made again removes nothing: twice leaves what once leaves.
C20_CancelIsIdempotent ==
  \A p \in Procs :
    Returned_cancelBooking(p) =>
      /\ (\A b \in call[p].pre : b.id # call[p].bookingId) =>
           /\ call[p].success
           /\ call[p].error = NoError
           /\ bookings = call[p].pre
      /\ call[p].success =>
           bookings \ CancelledRows(call[p].caller, call[p].bookingId) = bookings

\* C20 witness: a call with an id that matches no row has returned, made by
\* a user who has a booking of their own in the store.
C20_Witness ==
  \E p \in Procs :
    /\ Returned_cancelBooking(p)
    /\ call[p].success
    /\ \A b \in call[p].pre : b.id # call[p].bookingId
    /\ \E b \in call[p].pre : b.user_id = call[p].caller

\* requests a createBooking call has made when it fails at check number k
\* (1 the profile lookup, 2 step 2.5, 3 step 3, 4 step 3.5, 5 the insert)
RequestsAt(c, k) == k + (IF c.profiled THEN 1 ELSE 0)

\* the caller had an active booking for the date asked when the call began
HadBooking(c) ==
  \E b \in c.pre : b.user_id = c.caller /\ b.booking_date = c.date
                    /\ b.status = "active"

\* the desk asked for is assigned to another user
DeskOfSomeoneElse(c) ==
  desks[c.deskId].assigned_to_user_id \notin {NoUser, c.caller}

\* C22: a createBooking call of an authenticated caller that ran alone
\* returns the error of the first check that fails, in the order profile,
\* USER_HAS_ASSIGNED_DESK, USER_BOOKING_LIMIT_EXCEEDED,
\* DESK_PERMANENTLY_ASSIGNED, insert, and makes no request after it: when
\* several conditions hold at once the earliest one is returned, and a
\* store failure is returned only if no earlier check had failed.
C22_FirstFailureWins ==
  \A p \in Procs :
    (Returned_createBooking(p) /\ call[p].solo /\ call[p].caller \in Users) =>
      LET c == call[p]
          stopped == c.error \in {StoreFailure, DuplicateUser}
      IN  /\ ~stopped =>
                c.error = IF HoldsAssignedDesk(c.caller) THEN USER_HAS_ASSIGNED_DESK
                          ELSE IF HadBooking(c) THEN USER_BOOKING_LIMIT_EXCEEDED
                          ELSE IF DeskOfSomeoneElse(c) THEN DESK_PERMANENTLY_ASSIGNED
                          ELSE IF c.date < today THEN CheckViolation
                          ELSE IF RowsOf(c.pre, c.deskId, c.date) # {}
                               THEN DuplicateBooking
                          ELSE NoError
          /\ c.error = USER_HAS_ASSIGNED_DESK =>
                c.requests = RequestsAt(c, 2) /\ c.existingBooking = "unread"
          /\ c.error = USER_BOOKING_LIMIT_EXCEEDED => c.requests = RequestsAt(c, 3)
          /\ c.error = DESK_PERMANENTLY_ASSIGNED => c.requests = RequestsAt(c, 4)
          /\ (stopped /\ c.assignedDesk # "unread") => ~HoldsAssignedDesk(c.caller)
          /\ (stopped /\ c.existingBooking # "unread") => ~HadBooking(c)
          /\ (stopped /\ c.requests = RequestsAt(c, 5)) => ~DeskOfSomeoneElse(c)

\* a user who holds an assigned desk and has a booking for the date asked is
\* told USER_HAS_ASSIGNED_DESK
C22_Witness ==
  \E p \in Procs :
    /\ Returned_createBooking(p) /\ call[p].solo
    /\ HoldsAssignedDesk(call[p].caller) /\ HadBooking(call[p])
    /\ call[p].error = USER_HAS_ASSIGNED_DESK

\* the call of session p has passed its profile step
PastProfile(c) ==
  /\ c.op = "createBooking"
  /\ \/ c.pc \in {"check_assigned", "check_existing", "check_desk", "insert"}
     \/ c.assignedDesk # "unread" \/ c.existingBooking # "unread"
     \/ c.booking # NoBooking

\* the call returns the profile error and has done nothing else
StoppedAtProfile(c, n) ==
  /\ c.pc = "done" /\ c.error \in {StoreFailure, DuplicateUser}
  /\ c.booking = NoBooking /\ c.requests = n
  /\ c.assignedDesk = "unread" /\ c.existingBooking = "unread"

\* C23: every booking row belongs to a user who has a users row, and a
\* createBooking call gets past its profile step only when its caller has
\* one; a call whose profile lookup or profile creation fails returns that
\* error in the same step, has made no later check, and the booking rows
\* stay as they were.
C23_ProfileFirst ==
  /\ [](\A b \in bookings : b.user_id \in users)
  /\ [](\A p \in Procs : PastProfile(call[p]) => call[p].caller \in users)
  /\ [][\A p \in Procs :
          /\ (/\ StepOfCreateBooking(p) /\ call[p].pc = "profile_insert"
              /\ users' = users)
               => StoppedAtProfile(call'[p], 2) /\ bookings' = bookings
          /\ (/\ StepOfCreateBooking(p) /\ Ready(p) /\ call'[p].requests = 1
              /\ call'[p].pc # "profile_insert" /\ call'[p].caller \notin users)
               => StoppedAtProfile(call'[p], 1) /\ bookings' = bookings]_vars

\* a call whose profile creation failed has returned the store's error
C23_Witness ==
  \E p \in Procs :
    /\ Returned_createBooking(p) /\ call[p].caller \in Users \ users
    /\ call[p].requests = 2 /\ call[p].error = StoreFailure
    /\ \E b \in bookings : b.user_id \in users

\* C27: a createBooking call that returns an error, whichever it is, has
\* left the booking rows as they were: the step in which a call returns an
\* error adds and removes no booking row, no earlier step of the call does,
\* and when the call ran alone the rows at its return are the rows at its
\* invocation.
C27_FailedCallLeavesBookings ==
  /\ [](\A p \in Procs :
          (Returned_createBooking(p) /\ call[p].error # NoError /\ call[p].solo)
            => bookings = call[p].pre)
  /\ [][\A p \in Procs :
          (StepOfCreateBooking(p)
             /\ (call'[p].pc # "done" \/ call'[p].error # NoError))
            => bookings' = bookings]_vars

\* the store has refused an insert for a past date, other bookings existing
C27_Witness ==
  \E p \in Procs :
    /\ Returned_createBooking(p) /\ call[p].solo
    /\ call[p].error = CheckViolation
    /\ bookings = call[p].pre /\ bookings # {}

\* C29: a createBooking call that follows, in the same session and with
\* nothing in between, a cancelBooking which removed the booking of a desk
\* and date succeeds for that desk and date when its caller holds no
\* assigned desk and has no active booking that day, and succeeds for the
\* former owner on any other free desk of that date: desk unassigned, no
\* active booking of it that day, date not before the current day, call
\* running alone.
C29_CancelFreesTheSlot ==
  \A p \in Procs :
    LET c == call[p] IN
    (/\ Returned_createBooking(p) /\ c.solo /\ c.freed # "no"
     /\ c.caller \in Users /\ ~HoldsAssignedDesk(c.caller) /\ ~HadBooking(c)
     /\ \A b \in RowsOf(c.pre, c.deskId, c.date) : b.status # "active"
     /\ desks[c.deskId].assigned_to_user_id = NoUser
     /\ c.date >= today)
      => /\ c.error = NoError /\ c.booking # NoBooking
         /\ BookingOf(c) \in bookings

\* the desk and date of a booking just cancelled have been booked again
C29_Witness ==
  \E p \in Procs :
    /\ Returned_createBooking(p) /\ call[p].solo /\ call[p].freed = "same_desk"
    /\ call[p].error = NoError /\ BookingOf(call[p]) \in bookings

Returned_getUserBookingsWithCleanup(p) ==
  call[p].pc = "done" /\ call[p].op = "getUserBookingsWithCleanup"

\* C24 as claimed: a getUserBookingsWithCleanup call whose purge succeeded
\* returns no booking dated before the purge's cutoff, the day of the purge
\* minus 90 days.
C24_NoOldBookingListed ==
  \A p \in Procs :
    (Returned_getUserBookingsWithCleanup(p) /\ call[p].purge = "ok") =>
      \A i \in 1..Len(call[p].list) :
        call[p].list[i].booking_date >= call[p].cutoff

\* C25: a getUserBookingsWithCleanup call whose purge failed has gone on
\* to the read: it returns what getUserBookings returns for its arguments,
\* bookings and error, and no cleanupResult.
C25_FailedPurgeDoesNotBlockRead ==
  \A p \in Procs :
    (Returned_getUserBookingsWithCleanup(p) /\ call[p].purge = "failed") =>
      LET c == call[p]
          uid == IF c.userId # NoUser THEN c.userId ELSE c.caller
      IN  /\ c.deletedCount = 0
          /\ IF uid = NoUser
             THEN c.error = NotAuthenticated /\ c.list = <<>> /\ c.requests = 1
             ELSE /\ c.requests = 2
                  /\ c.error \in {NoError, StoreFailure}
                  /\ c.error = NoError => c.list = UserBookings(uid, c.limit)
                  /\ c.error = StoreFailure => c.list = <<>>

\* after a failed purge the call has returned the bookings of its user
C25_Witness ==
  \E p \in Procs :
    /\ Returned_getUserBookingsWithCleanup(p) /\ call[p].purge = "failed"
    /\ call[p].error = NoError /\ call[p].list # <<>>

\* session p takes a step of cleanupOldBookings, called directly or by
\* getUserBookingsWithCleanup
StepOfCleanup(p) ==
  /\ call'[p].op \in {"cleanupOldBookings", "getUserBookingsWithCleanup"}
  /\ call'[p].pc # "idle"
  /\ Ready(p) \/ call'[p].pc # call[p].pc

\* C28: no step of cleanupOldBookings, whatever its retention period and
\* whether called directly or as the 90-day purge of
\* getUserBookingsWithCleanup, removes a booking row dated the current day
\* or later, whatever the other session is doing.
C28_PurgeSparesUpcomingBookings ==
  [][\A p \in Procs :
       StepOfCleanup(p) => \A b \in bookings \ bookings' : b.booking_date < today]_vars

\* the 90-day purge has removed a booking while a booking of the current day
\* or later stays
C28_Witness ==
  \E p \in Procs :
    /\ Returned_getUserBookingsWithCleanup(p)
    /\ call[p].deletedCount > 0
    /\ \E b \in bookings : b.booking_date >= today

\* a run of handleBookDesk or handleCancelBooking is in progress
HandlerRunning(g) == g.pc \notin {"closed", "mount", "fetching", "idle"}

\* the grid's session begins a call of helper `op` in this step
GridInvokes(op) ==
  /\ Ready(GridProc)
  /\ call'[GridProc] # call[GridProc]
  /\ call'[GridProc].op = op

\* C21: a run of handleBookDesk starts only by a click on a desk the grid
\* shows as available, and a run of handleCancelBooking only by a click on
\* a desk shown as my_booking, for the id of that desk's booking; either
\* starts only while no action of the grid is in progress (actionLoading
\* false, which every running handler keeps true); the grid's session calls
\* createBooking and cancelBooking only from these runs, for the desk or
\* booking clicked.
C21_ClickStartsOnlyAllowedRequest ==
  /\ [](HandlerRunning(grid) => grid.actionLoading)
  /\ [][/\ (grid'.pc = "book_check" /\ grid.pc # "book_check") =>
             /\ ~HandlerRunning(grid) /\ ~grid.actionLoading
             /\ FindDesk(grid.desks, grid'.target).status = "available"
        /\ (grid'.pc = "cancel_call" /\ grid.pc # "cancel_call") =>
             /\ ~HandlerRunning(grid) /\ ~grid.actionLoading
             /\ \E i \in 1..Len(grid.desks) :
                  /\ grid.desks[i].status = "my_booking"
                  /\ grid.desks[i].booking = grid'.target
        /\ GridInvokes("createBooking") =>
             grid.pc = "book_create" /\ call'[GridProc].deskId = grid.target
        /\ GridInvokes("cancelBooking") =>
             grid.pc = "cancel_call" /\ call'[GridProc].bookingId = grid.target
       ]_vars

\* a click has started a booking run for an available desk while the grid
\* shows another desk as booked or assigned
C21_Witness ==
  /\ grid.pc = "book_check"
  /\ FindDesk(grid.desks, grid.target).status = "available"
  /\ \E i \in 1..Len(grid.desks) : grid.desks[i].status \in {"booked", "assigned"}

\* C26: a run of handleBookDesk calls createBooking at most once; a run
\* whose createBooking returned the uniqueness violation calls fetchDesks,
\* one getDesksWithStatus fetch, and ends when it returns, having called
\* createBooking once and fetchDesks once.
C26_NoRetryAfterDuplicate ==
  /\ [](grid.creates <= 1 /\ grid.fetches <= 1)
  /\ [](grid.bookError = DuplicateBooking =>
          grid.pc \in {"book_refetch", "book_refetching"} /\ grid.creates = 1)
  /\ [][/\ (GridInvokes("createBooking") /\ call'[GridProc].requests > 0)
             => grid.creates = 0
        /\ (grid.bookError = DuplicateBooking /\ grid'.pc = "idle")
             => grid.creates = 1 /\ grid.fetches = 1
       ]_vars

\* after the uniqueness violation the run is fetching the desks again
C26_Witness ==
  /\ grid.pc = "book_refetching" /\ grid.bookError = DuplicateBooking
  /\ grid.creates = 1 /\ grid.fetches = 1

\* C30: when a run of handleBookDesk or handleCancelBooking ends, whichever
\* path it took, actionLoading is false and bookingInProgress is null, and
\* they stay so while no handler runs.
C30_HandlersResetTheirFlags ==
  /\ [](~HandlerRunning(grid) =>
          ~grid.actionLoading /\ grid.bookingInProgress = NoDesk)
  /\ [][(HandlerRunning(grid) /\ ~HandlerRunning(grid'))
          => ~grid'.actionLoading /\ grid'.bookingInProgress = NoDesk]_vars

\* a run that ended by a thrown exception has reset the flags
C30_Witness ==
  /\ grid.pc = "idle" /\ grid.exit = "thrown"
  /\ ~grid.actionLoading /\ grid.bookingInProgress = NoDesk

====
